---- MODULE Spec2Model ----
(***************************************************************************)
(* Model of scripts/gstreamer-webrtc-sender.py: the WebRTCStreamer object, *)
(* the asyncio reactor that runs run()/connect_signaling() and the tasks   *)
(* created by the media-engine callbacks, the signal handler installed by  *)
(* main(), and the media engine / signaling server as the environment.     *)
(***************************************************************************)
EXTENDS Naturals, Sequences, FiniteSets, TLC

None == "None"

\* Bound of the model: the number of events the environment delivers in one
\* run (media-engine signals, bus messages and inbound payloads together).
MaxEvents == 3

VARIABLES
    pcMain,        \* position of main()/run()/connect_signaling() on the main thread
    stopCaller,    \* who runs stop() on the main thread: "none", "run", "main", "bus"
    pcStop,        \* position inside that stop()
    pipeline,      \* self.pipeline
    gstState,      \* state of the GStreamer pipeline object
    webrtcbin,     \* self.webrtcbin
    websocket,     \* self.websocket
    session_id,    \* self.session_id
    conn,          \* the websocket connection object: "none", "open", "failed", "closed_ok", "closed_err"
    tasks,         \* tasks created on the event loop and not yet run, FIFO
    wire,          \* messages transmitted on the connection, in order
    engineCalls,   \* calls made into webrtcbin, in order
    nReceived,     \* number of inbound payloads taken by the receive loop
    lastRaw,       \* the latest of them, NoRaw before the first
    promises,      \* create-offer promises not yet resolved
    nullCalls,     \* number of pipeline.set_state(NULL) calls
    closeIssued,   \* number of websocket.close() tasks created
    silentDrops,   \* messages _send_signaling_message dropped without any failure
    stopCalls,     \* number of stop() invocations begun
    exitStatus,    \* process exit status "0" or "1", None while running
    engineEvents,  \* number of media-engine and bus events so far
    fallbackTries, \* number of times the software-encoder fallback was built
    signalled,     \* whether signal_handler has run
    iceState,      \* webrtcbin's ice-connection-state property
    discovered     \* local ICE candidates in the order the engine emitted them

vars == <<pcMain, stopCaller, pcStop, pipeline, gstState, webrtcbin,
          websocket, session_id, conn, tasks, wire, engineCalls, nReceived,
          lastRaw, promises, nullCalls, closeIssued, silentDrops, stopCalls, exitStatus,
          engineEvents, fallbackTries, signalled,
                   iceState, discovered>>

\* The fields stop() works on.
stopVars == <<pipeline, gstState, websocket, tasks, nullCalls, closeIssued>>
\* Everything the main coroutine and the handlers own besides stopVars.
sessVars == <<webrtcbin, session_id, conn, wire, engineCalls, nReceived,
              lastRaw, promises, silentDrops, engineEvents, fallbackTries, signalled,
                   iceState, discovered>>

----------------------------------------------------------------------------
\* Inbound payloads.  json is what json.loads makes of the text.
Raw(j, t, s, c, i) ==
    [json |-> j, type |-> t, sdp |-> s, candidate |-> c, session_id |-> i]

NoRaw == Raw(None, None, None, None, None)

SessionIds == {"s1", "s2"}
RemoteCandidates == {"rc1", "rc2"}
LocalCandidates == {"lc1", "lc2"}

Inbound ==
    {Raw("invalid", None, None, None, None),
     Raw("nonobject", None, None, None, None),
     Raw("object", None, None, None, None),
     Raw("object", "ping", None, None, None),
     Raw("object", "error", None, None, None),
     Raw("object", "answer", "sdpA", None, None),
     Raw("object", "answer", None, None, None),
     Raw("object", "ice-candidate", None, None, None),
     Raw("object", "session-created", None, None, None)}
    \cup {Raw("object", "ice-candidate", None, c, None) : c \in RemoteCandidates}
    \cup {Raw("object", "session-created", None, None, i) : i \in SessionIds}

Msg(t, a, i) == [type |-> t, arg |-> a, session_id |-> i]
Call(c, a) == [call |-> c, arg |-> a]

Init ==
    /\ pcMain = "main_run"
    /\ stopCaller = "none"
    /\ pcStop = "idle"
    /\ pipeline = None
    /\ gstState = "VOID"
    /\ webrtcbin = None
    /\ websocket = None
    /\ session_id = None
    /\ conn = "none"
    /\ tasks = <<>>
    /\ wire = <<>>
    /\ engineCalls = <<>>
    /\ nReceived = 0
    /\ lastRaw = NoRaw
    /\ promises = 0
    /\ nullCalls = 0
    /\ closeIssued = 0
    /\ silentDrops = 0
    /\ stopCalls = 0
    /\ exitStatus = None
    /\ engineEvents = 0
    /\ fallbackTries = 0
    /\ signalled = FALSE
    /\ iceState = "new"
    /\ discovered = <<>>

Alive == exitStatus = None
EventsLeft == engineEvents + nReceived < MaxEvents
\* The main thread runs the reactor only while no stop() is in progress on it.
MainThreadFree == Alive /\ stopCaller = "none"
\* run_until_complete(streamer.run()) is driving the event loop.
LoopRunning == MainThreadFree /\ pcMain \in {"connecting", "receiving"}

----------------------------------------------------------------------------
\* The fields stop() works on, as a record.
StopState == [pipeline |-> pipeline, gstState |-> gstState,
              websocket |-> websocket, tasks |-> tasks,
              nullCalls |-> nullCalls, closeIssued |-> closeIssued]

\* Mutant of stop_statement: line 350 creates no websocket.close() task.
stop_statement_noclose(pc, s) ==
    CASE pc = "s345" ->
           [pc |-> IF s.pipeline # None THEN "s346" ELSE "s349", s |-> s]
      [] pc = "s346" ->
           [pc |-> "s347",
            s |-> [s EXCEPT !.gstState = "NULL", !.nullCalls = @ + 1]]
      [] pc = "s347" ->
           [pc |-> "s349", s |-> [s EXCEPT !.pipeline = None]]
      [] pc = "s349" ->
           [pc |-> IF s.websocket # None THEN "s350" ELSE "done", s |-> s]
      [] pc = "s350" ->
           [pc |-> "s351", s |-> s]
      [] pc = "s351" ->
           [pc |-> "done", s |-> [s EXCEPT !.websocket = None]]

\* stop(), lines 341-356, one statement: from position pc on fields s to
\* the next position and the fields after it.  self.loop is never assigned
\* after __init__, so the test at line 353 is always false.
stop_statement(pc, s) ==
    CASE pc = "s345" ->
           [pc |-> IF s.pipeline # None THEN "s346" ELSE "s349", s |-> s]
      [] pc = "s346" ->
           [pc |-> "s347",
            s |-> [s EXCEPT !.gstState = "NULL", !.nullCalls = @ + 1]]
      [] pc = "s347" ->
           [pc |-> "s349", s |-> [s EXCEPT !.pipeline = None]]
      [] pc = "s349" ->
           [pc |-> IF s.websocket # None THEN "s350" ELSE "done", s |-> s]
      [] pc = "s350" ->
           [pc |-> "s351",
            s |-> [s EXCEPT !.tasks = Append(@, [type |-> "close", arg |-> None,
                                                 session_id |-> None]),
                            !.closeIssued = @ + 1]]
      [] pc = "s351" ->
           [pc |-> "done", s |-> [s EXCEPT !.websocket = None]]

\* stop() run from position pc to its end without interruption.
RECURSIVE stop(_, _)
stop(pc, s) ==
    IF pc = "done" THEN s
    ELSE LET r == stop_statement(pc, s) IN stop(r.pc, r.s)

SetStopState(s) ==
    /\ pipeline' = s.pipeline
    /\ gstState' = s.gstState
    /\ websocket' = s.websocket
    /\ tasks' = s.tasks
    /\ nullCalls' = s.nullCalls
    /\ closeIssued' = s.closeIssued

\* An exception reaches an except clause that calls stop(): run() line 368
\* (caller "run") or main() line 452 (caller "main").
EnterStop(caller) ==
    /\ stopCaller' = caller
    /\ pcStop' = "s345"
    /\ stopCalls' = stopCalls + 1

\* create_pipeline(), lines 122-164, called by start() from run() line 361.
\* hw, sw: whether Gst.parse_launch accepts the hardware / fallback pipeline;
\* bin: whether get_by_name("sendrecv") finds the element.
create_pipeline(hw, sw, bin) ==
    /\ MainThreadFree
    /\ pcMain = "main_run"
    /\ fallbackTries' = IF hw THEN fallbackTries ELSE fallbackTries + 1
    /\ IF hw \/ sw
         THEN /\ pipeline' = "Pipeline"
              /\ gstState' = "READY"
              /\ IF bin
                   THEN /\ webrtcbin' = "webrtcbin"
                        /\ pcMain' = "pipeline_created"
                        /\ UNCHANGED <<stopCaller, pcStop, stopCalls>>
                   ELSE /\ webrtcbin' = None
                        /\ pcMain' = "main_except"
                        /\ EnterStop("main")
         ELSE /\ pcMain' = "main_except"
              /\ EnterStop("main")
              /\ UNCHANGED <<pipeline, gstState, webrtcbin>>
    /\ UNCHANGED <<websocket, tasks, nullCalls, closeIssued, session_id,
                   conn, wire, engineCalls, nReceived, lastRaw, promises, silentDrops,
                   engineEvents, exitStatus, signalled, iceState, discovered>>

\* Mutant of start: the return value of set_state(PLAYING) is not tested, so
\* run() goes on to connect with a pipeline that did not start.
start_unchecked(ok) ==
    /\ MainThreadFree
    /\ pcMain = "pipeline_created"
    /\ gstState' = IF ok THEN "PLAYING" ELSE gstState
    /\ pcMain' = "connecting"
    /\ UNCHANGED <<stopCaller, pcStop, stopCalls, pipeline, websocket, tasks,
                   nullCalls, closeIssued, exitStatus>>
    /\ UNCHANGED sessVars

\* start(), lines 334-339: pipeline.set_state(PLAYING).
start(ok) ==
    /\ MainThreadFree
    /\ pcMain = "pipeline_created"
    /\ IF ok
         THEN /\ gstState' = "PLAYING"
              /\ pcMain' = "connecting"
              /\ UNCHANGED <<stopCaller, pcStop, stopCalls>>
         ELSE /\ pcMain' = "main_except"
              /\ EnterStop("main")
              /\ UNCHANGED gstState
    /\ UNCHANGED <<pipeline, websocket, tasks, nullCalls, closeIssued,
                   exitStatus>>
    /\ UNCHANGED sessVars

\* _send_signaling_message(), lines 253-259, up to its first suspension:
\* websockets writes the frame before send() suspends.  The result is
\* <<wire, silentDrops>> after the call.
send_signaling_message(ws, c, w, d, m) ==
    IF ws # None
      THEN IF c = "open" THEN <<Append(w, m), d>> ELSE <<w, d>>
      ELSE <<w, d + 1>>

Register == Msg("register", "sender", None)

\* Mutant of connect_ok: the register message is handed to the event loop
\* as a task (as the callbacks do) instead of being awaited in place.
connect_ok_deferred(sendOk) ==
    /\ LoopRunning
    /\ pcMain = "connecting"
    /\ websocket' = "ws"
    /\ conn' = IF sendOk THEN "open" ELSE "closed_err"
    /\ tasks' = Append(tasks, Register)
    /\ pcMain' = "receiving"
    /\ UNCHANGED <<stopCaller, pcStop, pipeline, gstState, webrtcbin,
                   session_id, wire, silentDrops, engineCalls, nReceived,
                   lastRaw, promises, nullCalls, closeIssued, stopCalls,
                   exitStatus, engineEvents, fallbackTries, signalled,
                   iceState, discovered>>

\* connect_signaling(), lines 299-313: websockets.connect returns, the
\* connection is stored and the register message is sent before the
\* coroutine suspends again.  sendOk = FALSE: the connection breaks under
\* the first send, which raises and is logged at line 259.
connect_ok(sendOk) ==
    /\ LoopRunning
    /\ pcMain = "connecting"
    /\ websocket' = "ws"
    /\ conn' = IF sendOk THEN "open" ELSE "closed_err"
    /\ LET r == send_signaling_message("ws", conn', wire, silentDrops, Register)
       IN  /\ wire' = r[1]
           /\ silentDrops' = r[2]
    /\ pcMain' = "receiving"
    /\ UNCHANGED <<stopCaller, pcStop, pipeline, gstState, webrtcbin,
                   session_id, tasks, engineCalls, nReceived, lastRaw, promises,
                   nullCalls, closeIssued, stopCalls, exitStatus,
                   engineEvents, fallbackTries, signalled,
                   iceState, discovered>>

\* connect_signaling(), lines 299 and 323-325, run() lines 366-368:
\* websockets.connect raises; the error is logged, re-raised, and run()
\* calls stop().
connect_fail ==
    /\ LoopRunning
    /\ pcMain = "connecting"
    /\ conn' = "failed"
    /\ pcMain' = "run_except"
    /\ EnterStop("run")
    /\ UNCHANGED <<exitStatus, webrtcbin, session_id, wire, engineCalls,
                   nReceived, lastRaw, promises, silentDrops, engineEvents, fallbackTries, signalled,
                   iceState, discovered>>
    /\ UNCHANGED stopVars

----------------------------------------------------------------------------
\* _handle_signaling_message(), lines 261-292, for a parsed JSON object.
\* The handler holds no state machine: it looks at the message alone.
handle_signaling_message(m) ==
    /\ engineCalls' =
         IF m.type = "answer" /\ m.sdp # None
           THEN Append(engineCalls, Call("set-remote-description", m.sdp))
         ELSE IF m.type = "ice-candidate" /\ m.candidate # None
           THEN Append(engineCalls, Call("add-ice-candidate", m.candidate))
         ELSE engineCalls
    /\ session_id' = IF m.type = "session-created" THEN m.session_id
                     ELSE session_id

\* Mutant of receive_message: a payload equal to the previous one is
\* coalesced with it instead of being handled again.
receive_message_coalescing(raw) ==
    /\ LoopRunning
    /\ pcMain = "receiving"
    /\ conn = "open"
    /\ EventsLeft
    /\ nReceived' = nReceived + 1
    /\ lastRaw' = raw
    /\ CASE raw.json = "invalid" \/ (raw.json = "object" /\ raw = lastRaw) ->
              UNCHANGED <<engineCalls, session_id, pcMain, stopCaller, pcStop,
                          stopCalls>>
         [] raw.json = "nonobject" ->
              /\ pcMain' = "run_except"
              /\ EnterStop("run")
              /\ UNCHANGED <<engineCalls, session_id>>
         [] raw.json = "object" /\ raw # lastRaw ->
              /\ handle_signaling_message(raw)
              /\ UNCHANGED <<pcMain, stopCaller, pcStop, stopCalls>>
    /\ UNCHANGED <<exitStatus, webrtcbin, conn, wire, promises,
                   silentDrops, engineEvents, fallbackTries, signalled,
                   iceState, discovered>>
    /\ UNCHANGED stopVars

\* Mutant of receive_message: the except clause at line 320 is missing, so
\* a JSONDecodeError leaves the loop like any other exception.
receive_message_uncaught(raw) ==
    /\ LoopRunning
    /\ pcMain = "receiving"
    /\ conn = "open"
    /\ EventsLeft
    /\ nReceived' = nReceived + 1
    /\ lastRaw' = raw
    /\ IF raw.json = "object"
         THEN /\ handle_signaling_message(raw)
              /\ UNCHANGED <<pcMain, stopCaller, pcStop, stopCalls>>
         ELSE /\ pcMain' = "run_except"
              /\ EnterStop("run")
              /\ UNCHANGED <<engineCalls, session_id>>
    /\ UNCHANGED <<exitStatus, webrtcbin, conn, wire, promises,
                   silentDrops, engineEvents, fallbackTries, signalled,
                   iceState, discovered>>
    /\ UNCHANGED stopVars

\* connect_signaling(), lines 316-325: one turn of the receive loop.
\* json.loads raises JSONDecodeError for text that is no JSON (caught at
\* line 320); a JSON value that is no object makes message.get raise
\* AttributeError, which leaves the loop through line 323 into run()'s
\* except clause.  The loop iterates the connection object, not
\* self.websocket, so it goes on after stop() has cleared that field.
receive_message(raw) ==
    /\ LoopRunning
    /\ pcMain = "receiving"
    /\ conn = "open"
    /\ EventsLeft
    /\ nReceived' = nReceived + 1
    /\ lastRaw' = raw
    /\ CASE raw.json = "invalid" ->
              UNCHANGED <<engineCalls, session_id, pcMain, stopCaller, pcStop,
                          stopCalls>>
         [] raw.json = "nonobject" ->
              /\ pcMain' = "run_except"
              /\ EnterStop("run")
              /\ UNCHANGED <<engineCalls, session_id>>
         [] raw.json = "object" ->
              /\ handle_signaling_message(raw)
              /\ UNCHANGED <<pcMain, stopCaller, pcStop, stopCalls>>
    /\ UNCHANGED <<exitStatus, webrtcbin, conn, wire, promises,
                   silentDrops, engineEvents, fallbackTries, signalled,
                   iceState, discovered>>
    /\ UNCHANGED stopVars

\* The server or the network ends the connection: a clean close frame or
\* an abnormal drop.
connection_lost(clean) ==
    /\ Alive
    /\ conn = "open"
    /\ conn' = IF clean THEN "closed_ok" ELSE "closed_err"
    /\ UNCHANGED <<pcMain, stopCaller, pcStop, stopCalls, exitStatus,
                   webrtcbin, session_id, wire, engineCalls, nReceived, lastRaw,
                   promises, silentDrops, engineEvents, fallbackTries, signalled,
                   iceState, discovered>>
    /\ UNCHANGED stopVars

\* connect_signaling(), line 316, on a closed connection: after a clean
\* close the iteration ends, connect_signaling and run() return and main()
\* falls off its end (status 0); after an abnormal close the iteration
\* raises, lines 323-325, and run() calls stop().
receive_loop_ends ==
    /\ LoopRunning
    /\ pcMain = "receiving"
    /\ conn \in {"closed_ok", "closed_err"}
    /\ IF conn = "closed_ok"
         THEN /\ pcMain' = "exited"
              /\ exitStatus' = "0"
              /\ UNCHANGED <<stopCaller, pcStop, stopCalls>>
         ELSE /\ pcMain' = "run_except"
              /\ EnterStop("run")
              /\ UNCHANGED exitStatus
    /\ UNCHANGED sessVars
    /\ UNCHANGED stopVars

\* Mutant of run_task: the event loop runs the newest task first.
run_task_lifo ==
    /\ LoopRunning
    /\ tasks # <<>>
    /\ tasks' = SubSeq(tasks, 1, Len(tasks) - 1)
    /\ LET t == tasks[Len(tasks)]
       IN  IF t.type = "close"
             THEN /\ conn' = IF conn = "open" THEN "closed_ok" ELSE conn
                  /\ UNCHANGED <<wire, silentDrops>>
             ELSE /\ LET r == send_signaling_message(websocket, conn, wire,
                                                     silentDrops, t)
                     IN  /\ wire' = r[1]
                         /\ silentDrops' = r[2]
                  /\ UNCHANGED conn
    /\ UNCHANGED <<pcMain, stopCaller, pcStop, stopCalls, exitStatus,
                   pipeline, gstState, websocket, nullCalls, closeIssued,
                   webrtcbin, session_id, engineCalls, nReceived, lastRaw,
                   promises, engineEvents, fallbackTries, signalled, iceState,
                   discovered>>

\* The event loop runs the oldest task: a _send_signaling_message created
\* at line 196 or 207, or the websocket.close() created at line 350.
run_task ==
    /\ LoopRunning
    /\ tasks # <<>>
    /\ tasks' = Tail(tasks)
    /\ LET t == Head(tasks)
       IN  IF t.type = "close"
             THEN /\ conn' = IF conn = "open" THEN "closed_ok" ELSE conn
                  /\ UNCHANGED <<wire, silentDrops>>
             ELSE /\ LET r == send_signaling_message(websocket, conn, wire,
                                                     silentDrops, t)
                     IN  /\ wire' = r[1]
                         /\ silentDrops' = r[2]
                  /\ UNCHANGED conn
    /\ UNCHANGED <<pcMain, stopCaller, pcStop, stopCalls, exitStatus,
                   pipeline, gstState, websocket, nullCalls, closeIssued,
                   webrtcbin, session_id, engineCalls, nReceived, lastRaw, promises,
                   engineEvents, fallbackTries, signalled,
                   iceState, discovered>>

----------------------------------------------------------------------------
\* asyncio.get_event_loop().create_task(...), lines 196 and 207, called from
\* a media-engine callback.  The callback runs on whichever thread the
\* engine emits the signal on; on a thread without an event loop
\* get_event_loop raises and no task exists (ok = FALSE).
create_task(q, m, ok) == IF ok THEN Append(q, m) ELSE q

EngineActive == Alive /\ gstState = "PLAYING" /\ EventsLeft

\* _on_negotiation_needed(), lines 172-176: every event requests an offer.
on_negotiation_needed ==
    /\ EngineActive
    /\ engineEvents' = engineEvents + 1
    /\ engineCalls' = Append(engineCalls, Call("create-offer", None))
    /\ promises' = promises + 1
    /\ UNCHANGED <<pcMain, stopCaller, pcStop, stopCalls, exitStatus,
                   webrtcbin, session_id, conn, wire, nReceived, lastRaw, silentDrops,
                   fallbackTries, signalled,
                   iceState, discovered>>
    /\ UNCHANGED stopVars

\* _on_offer_created(), lines 178-202: a create-offer promise resolves.
\* offer = FALSE: the reply carries no offer (line 184).
on_offer_created(offer, loopOk) ==
    /\ Alive
    /\ promises > 0
    /\ offer => gstState = "PLAYING"
    /\ promises' = promises - 1
    /\ IF offer
         THEN /\ engineCalls' = Append(engineCalls,
                                       Call("set-local-description", "offer"))
              /\ tasks' = create_task(tasks, Msg("offer", "sdp", session_id),
                                      loopOk)
         ELSE UNCHANGED <<engineCalls, tasks>>
    /\ UNCHANGED <<pcMain, stopCaller, pcStop, stopCalls, exitStatus,
                   pipeline, gstState, websocket, nullCalls, closeIssued,
                   webrtcbin, session_id, conn, wire, nReceived, lastRaw, silentDrops,
                   engineEvents, fallbackTries, signalled,
                   iceState, discovered>>

\* _on_ice_candidate(), lines 204-214.
on_ice_candidate(c, loopOk) ==
    /\ EngineActive
    /\ engineEvents' = engineEvents + 1
    /\ tasks' = create_task(tasks, Msg("ice-candidate", c, session_id), loopOk)
    /\ discovered' = Append(discovered, c)
    /\ UNCHANGED <<pcMain, stopCaller, pcStop, stopCalls, exitStatus,
                   pipeline, gstState, websocket, nullCalls, closeIssued,
                   webrtcbin, session_id, conn, wire, engineCalls, nReceived, lastRaw,
                   promises, silentDrops, fallbackTries, signalled,
                   iceState>>

\* _on_ice_connection_state() and _on_connection_state(), lines 216-231:
\* the engine's state property changed; it is read and logged, nothing is
\* stored in the streamer.
on_connection_state(state) ==
    /\ EngineActive
    /\ engineEvents' = engineEvents + 1
    /\ iceState' = state
    /\ UNCHANGED <<pcMain, stopCaller, pcStop, stopCalls, exitStatus,
                   webrtcbin, session_id, conn, wire, engineCalls, nReceived, lastRaw,
                   promises, silentDrops, fallbackTries, signalled,
                   discovered>>
    /\ UNCHANGED stopVars

BusMessageTypes == {"ERROR", "WARNING", "EOS", "STATE_CHANGED"}
IceStates == {"connected", "failed"}

\* _on_bus_message(), lines 233-251, dispatched by the bus signal watch
\* while the main thread is between reactor steps: ERROR and EOS call
\* stop() directly, the other types only log.
on_bus_message(t) ==
    /\ LoopRunning
    /\ webrtcbin # None
    /\ EventsLeft
    /\ engineEvents' = engineEvents + 1
    /\ IF t \in {"ERROR", "EOS"}
         THEN EnterStop("bus")
         ELSE UNCHANGED <<stopCaller, pcStop, stopCalls>>
    /\ UNCHANGED <<pcMain, exitStatus, webrtcbin, session_id, conn, wire,
                   engineCalls, nReceived, lastRaw, promises, silentDrops, fallbackTries, signalled,
                   iceState, discovered>>
    /\ UNCHANGED stopVars

\* One statement of the stop() running on the main thread.
stop_main_step ==
    /\ Alive
    /\ stopCaller # "none"
    /\ pcStop # "done"
    /\ LET r == stop_statement(pcStop, StopState)
       IN  /\ pcStop' = r.pc
           /\ SetStopState(r.s)
    /\ UNCHANGED <<pcMain, stopCaller, stopCalls, exitStatus>>
    /\ UNCHANGED sessVars

\* Mutant of stop_return: main()'s except clause lacks the sys.exit(1) of
\* line 453, so it ends like a normal return.
stop_return_zero ==
    /\ Alive
    /\ stopCaller # "none"
    /\ pcStop = "done"
    /\ stopCaller' = "none"
    /\ pcStop' = "idle"
    /\ IF stopCaller = "bus"
         THEN UNCHANGED <<pcMain, exitStatus>>
         ELSE /\ pcMain' = "exited"
              /\ exitStatus' = "0"
    /\ UNCHANGED stopCalls
    /\ UNCHANGED sessVars
    /\ UNCHANGED stopVars

\* stop() returns to its caller: run() line 368 returns and main() ends
\* with status 0; main() line 453 exits with status 1; _on_bus_message
\* returns to the event loop.
stop_return ==
    /\ Alive
    /\ stopCaller # "none"
    /\ pcStop = "done"
    /\ stopCaller' = "none"
    /\ pcStop' = "idle"
    /\ IF stopCaller = "bus"
         THEN UNCHANGED <<pcMain, exitStatus>>
         ELSE /\ pcMain' = "exited"
              /\ exitStatus' = IF stopCaller = "main" THEN "1" ELSE "0"
    /\ UNCHANGED stopCalls
    /\ UNCHANGED sessVars
    /\ UNCHANGED stopVars

\* signal_handler(), lines 437-440, installed at lines 442-443.  Python runs
\* it on the main thread between two bytecodes of whatever runs there, so it
\* can start inside a stop() that is in progress (stopCaller and pcStop keep
\* the place it interrupted).  It calls stop() and then sys.exit(0), which
\* unwinds the main thread: tasks still queued on the event loop never run.
signal_handler ==
    /\ Alive
    /\ stopCalls' = stopCalls + 1
    /\ SetStopState(stop("s345", StopState))
    /\ exitStatus' = "0"
    /\ pcMain' = "exited"
    /\ signalled' = TRUE
    /\ UNCHANGED <<stopCaller, pcStop, webrtcbin, session_id, conn, wire,
                   engineCalls, nReceived, lastRaw, promises, silentDrops,
                   engineEvents, fallbackTries, iceState, discovered>>

----------------------------------------------------------------------------
Next ==
    \/ \E hw, sw, bin \in BOOLEAN : create_pipeline(hw, sw, bin)
    \/ \E ok \in BOOLEAN : start(ok)
    \/ \E sendOk \in BOOLEAN : connect_ok(sendOk)
    \/ connect_fail
    \/ \E raw \in Inbound : receive_message(raw)
    \/ \E clean \in BOOLEAN : connection_lost(clean)
    \/ receive_loop_ends
    \/ run_task
    \/ on_negotiation_needed
    \/ \E offer, loopOk \in BOOLEAN : on_offer_created(offer, loopOk)
    \/ \E c \in LocalCandidates, loopOk \in BOOLEAN : on_ice_candidate(c, loopOk)
    \/ \E st \in IceStates : on_connection_state(st)
    \/ \E t \in BusMessageTypes : on_bus_message(t)
    \/ stop_main_step
    \/ stop_return
    \/ signal_handler

Spec == Init /\ [][Next]_vars

----------------------------------------------------------------------------
\* Observations on the history of calls into the media engine.
Calls(c) == {i \in 1..Len(engineCalls) : engineCalls[i].call = c}
Max0(S) == IF S = {} THEN 0 ELSE CHOOSE m \in S : \A x \in S : x <= m
\* Offers set as local description since the last applied answer.
OffersAwaitingAnswer ==
    Cardinality({i \in Calls("set-local-description") :
                   i > Max0(Calls("set-remote-description"))})
\* Offers being created or created and not yet answered.
OffersInFlight == promises + OffersAwaitingAnswer
\* The session state the spec calls OfferSent.
OfferSent == OffersAwaitingAnswer > 0

RecognizedTypes ==
    {"register", "session-created", "offer", "answer", "ice-candidate", "error"}
Malformed(raw) ==
    \/ raw.json = "invalid"
    \/ raw.json = "object" /\ raw.type \notin RecognizedTypes
\* This step is the receive loop taking one inbound payload.
Received == nReceived' = nReceived + 1

\* C1: at most one offer is in flight (being created, or created and not
\* yet answered) in every reachable state, however many negotiation-needed
\* events the media engine raises.
C1_SingleOfferInFlight == OffersInFlight <= 1

\* C2: no inbound ICE candidate is handed to the media engine before a
\* remote description has been applied: every add-ice-candidate call is
\* preceded by a set-remote-description call.
C2_CandidatesAfterRemoteDescription ==
    \A i \in Calls("add-ice-candidate") :
        \E j \in Calls("set-remote-description") : j < i

\* C3: an answer received while the session is not in OfferSent changes
\* nothing: no call into the media engine and no other session variable.
C3_AnswerOutsideOfferSentIgnored ==
    [][(Received /\ lastRaw'.type = "answer" /\ ~OfferSent)
         => UNCHANGED <<engineCalls, session_id, promises, websocket, pipeline>>]_vars

\* C4: within one negotiation round (after one offer was set as the local
\* description and before the next one) set-remote-description is called
\* at most once.
C4_RemoteDescriptionOncePerRound ==
    \A i \in Calls("set-local-description") :
        Cardinality({j \in Calls("set-remote-description") :
                       /\ j > i
                       /\ \A k \in Calls("set-local-description") :
                            ~(i < k /\ k < j)}) <= 1

\* C5: the session id is write-once: once it is not null no step changes it.
C5_SessionIdWriteOnce == [][session_id # None => session_id' = session_id]_vars

\* C6: whatever the interleaving of stop() invocations, the pipeline is set
\* to NULL at most once and the websocket close is issued at most once.
C6_StopTearsDownOnce == nullCalls <= 1 /\ closeIssued <= 1

\* C7: a malformed inbound payload (no JSON, or a JSON object of an
\* unrecognized type) is discarded: the session id, the media engine, the
\* pipeline, the connection and the outbound traffic are unchanged and the
\* receive loop goes on receiving.
C7_MalformedDiscarded ==
    [][(Received /\ Malformed(lastRaw'))
         => /\ UNCHANGED <<session_id, engineCalls, promises, pipeline,
                           gstState, webrtcbin, websocket, conn, tasks, wire>>
            /\ pcMain' = "receiving"
            /\ stopCaller' = "none"
            /\ exitStatus' = None]_vars

\* C7 witness: a malformed payload was the latest one taken, after an
\* earlier payload, and the loop is still receiving on the open connection.
C7_Witness ==
    /\ nReceived >= 2
    /\ Malformed(lastRaw)
    /\ pcMain = "receiving"
    /\ stopCaller = "none"
    /\ conn = "open"
    /\ Alive

\* C8: no signaling message is dropped silently: a send on a channel that
\* is not open always fails visibly.
C8_NoSilentDrop == silentDrops = 0

\* C9: register is the first message transmitted on the connection.
C9_RegisterFirst == wire # <<>> => wire[1].type = "register"

\* C9 witness: an offer created before the connection was open, and one
\* created after, and the offer follows register on the wire.
C9_Witness ==
    /\ Len(wire) >= 2
    /\ wire[1].type = "register"
    /\ wire[2].type = "offer"
    /\ silentDrops >= 1

\* C10: after the transport is lost and while no stop() was requested the
\* program is still running (retrying): it has not ended.
C10_RetriesUntilStopped ==
    (conn \in {"failed", "closed_ok", "closed_err"} /\ stopCalls = 0)
        => pcMain # "exited"

\* C11: a transport error does not tear down the media pipeline: the stop()
\* that follows a failed connect never sets the pipeline to NULL.
C11_TransportErrorKeepsPipeline ==
    ~(conn = "failed" /\ stopCaller = "run" /\ pcStop = "s347")

\* C12: whenever the signaling connection is being attempted or has been
\* attempted, the pipeline was created, its callbacks were wired and it was
\* started before; after a failed creation or start no connection is ever
\* attempted.
C12_StartupOrder ==
    /\ (pcMain \in {"connecting", "receiving", "run_except"} \/ conn # "none")
         => (webrtcbin # None /\ gstState \in {"PLAYING", "NULL"})
    /\ (pcMain = "main_except" \/ exitStatus = "1") => conn = "none"

\* C12 witness: the pipeline is playing and the connection is open.
C12_Witness ==
    /\ pcMain = "receiving"
    /\ conn = "open"
    /\ gstState = "PLAYING"
    /\ webrtcbin # None

\* C13: stop() closes the transport before it tears down the pipeline: the
\* pipeline is never set to NULL while a websocket is still stored and no
\* close was issued for it.
C13_TransportClosedFirst ==
    ~(nullCalls >= 1 /\ websocket # None /\ closeIssued = 0)

\* Both pipeline constructions failed: the fallback was tried and no
\* pipeline object ever existed.
BothFailed == fallbackTries = 1 /\ gstState = "VOID"

C15_ExitOneOnConnectFailure ==
    (pcMain = "exited" /\ conn = "failed" /\ ~signalled) => exitStatus = "1"

\* C16: once a stop() has run, no inbound message is applied to the media
\* engine or changes the session id.
C16_NothingAppliedAfterStop ==
    [][(Received /\ stopCalls >= 1) => UNCHANGED <<engineCalls, session_id>>]_vars

\* C17: every offer and ice-candidate message on the wire carries a
\* non-null session id.
C17_OutboundSessionId ==
    \A i \in 1..Len(wire) :
        wire[i].type \in {"offer", "ice-candidate"} => wire[i].session_id # None

IsCandidateMsg(m) == m.type = "ice-candidate"
\* The local candidates on the wire, in transmission order.
WireCandidates ==
    LET ms == SelectSeq(wire, IsCandidateMsg)
    IN  [i \in 1..Len(ms) |-> ms[i].arg]
RECURSIVE IsSubseq(_, _)
IsSubseq(a, b) ==
    IF a = <<>> THEN TRUE
    ELSE IF b = <<>> THEN FALSE
    ELSE IF Head(a) = Head(b) THEN IsSubseq(Tail(a), Tail(b))
    ELSE IsSubseq(a, Tail(b))

\* C18: local candidates are transmitted in the order the engine discovered
\* them: the candidates on the wire are a subsequence of the discoveries.
C18_CandidatesInDiscoveryOrder == IsSubseq(WireCandidates, discovered)

\* C18 witness: two different candidates and an offer are on the wire.
C18_Witness ==
    /\ Len(WireCandidates) >= 2
    /\ WireCandidates[1] # WireCandidates[2]
    /\ \E i \in 1..Len(wire) : wire[i].type = "offer"

IsInboundCall(c) == c.call \in {"set-remote-description", "add-ice-candidate"}
\* The engine calls made for inbound messages, in order.
InboundCalls(log) == SelectSeq(log, IsInboundCall)
\* The engine call a payload asks for.
ExpectedCalls(raw) ==
    IF raw.json = "object" /\ raw.type = "answer" /\ raw.sdp # None
      THEN <<Call("set-remote-description", raw.sdp)>>
    ELSE IF raw.json = "object" /\ raw.type = "ice-candidate"
            /\ raw.candidate # None
      THEN <<Call("add-ice-candidate", raw.candidate)>>
    ELSE <<>>

\* C19: inbound messages are handled one at a time in receipt order: the
\* step that takes a payload makes exactly the engine call it asks for,
\* after all earlier ones, and no other step makes such a call.
C19_InboundHandledInOrder ==
    [][InboundCalls(engineCalls') =
         InboundCalls(engineCalls)
           \o (IF Received THEN ExpectedCalls(lastRaw') ELSE <<>>)]_vars

\* C19 witness: two payloads were taken and both reached the engine.
C19_Witness ==
    /\ nReceived >= 2
    /\ Len(InboundCalls(engineCalls)) >= 2

\* C20: a change of the ICE connection state reported by the engine is
\* reflected in the streamer: some field of it changes with the report.
C20_IceStateReflected ==
    [][iceState' # iceState
         => <<pipeline, webrtcbin, websocket, session_id>>'
              # <<pipeline, webrtcbin, websocket, session_id>>]_vars

\* C21: the signal handler and the bus callback do not mutate the session
\* and transport state themselves: the step in which the signal handler runs,
\* and every step taken while the bus callback's stop() is on the stack,
\* leaves the pipeline and websocket references and the session id alone.
C21_ReactorOnlyMutation ==
    [][(signalled' # signalled \/ (stopCaller = "bus" /\ pcStop' # pcStop))
         => UNCHANGED <<pipeline, websocket, session_id>>]_vars

\* Offer messages on the wire.
WireOffers == {i \in 1..Len(wire) : wire[i].type = "offer"}

\* C22: no offer is lost to startup ordering: when the send of an offer is
\* attempted before the connection has been established, the offer is not
\* given up: it is transmitted, or it stays queued for the connection.
C22_NoOfferLost ==
    [][(conn = "none" /\ tasks # <<>> /\ Head(tasks).type = "offer"
          /\ tasks' = Tail(tasks))
         => \/ Cardinality(WireOffers') > Cardinality(WireOffers)
            \/ \E i \in 1..Len(tasks') : tasks'[i] = Head(tasks)]_vars

----------------------------------------------------------------------------
\* The program under its scheduling: the main thread keeps executing.  A
\* stop() in progress runs its next statement and returns, the event loop
\* driven by run_until_complete (line 447) runs a queued task, and the
\* iteration at line 316 resumes once the connection is closed.  Nothing is
\* assumed of the server, the media engine or the operator.
FairSpec ==
    /\ Init
    /\ [][Next]_vars
    /\ WF_vars(stop_main_step)
    /\ WF_vars(stop_return)
    /\ WF_vars(run_task)
    /\ WF_vars(receive_loop_ends)

\* C23: shutdown terminates: after the bus callback invokes stop() while
\* the receive loop is waiting for a message, run() eventually returns and
\* the process exits.
C23_ShutdownTerminates ==
    (stopCaller = "bus" /\ pcMain = "receiving") ~> (pcMain = "exited")

\* C23 witness: run() has returned after a stop() that closed the
\* connection, no message having been received and no signal handled.
C23_Witness ==
    /\ pcMain = "exited"
    /\ exitStatus = "0"
    /\ ~signalled
    /\ stopCalls = 1
    /\ closeIssued = 1
    /\ conn = "closed_ok"
    /\ nReceived = 0
    /\ tasks = <<>>

====
